---- MODULE Spec2Model ----
(***************************************************************************)
(* Model of the generation pipeline of metodicky-prevodnik                 *)
(* (src/app/utils/generate.py) and of its caller, the /upload handler      *)
(* (src/app/main.py).                                                      *)
(*                                                                         *)
(* Strings.  A Python str is modelled as a sequence of tokens.  A token    *)
(* [k, w] stands for w consecutive characters of kind k:                   *)
(*   "sp"  w spaces                "nl"  one line feed                      *)
(*   "x","y"  w characters of ordinary text: no markup, no line feed, and  *)
(*            a non-blank first character                                  *)
(*   "-" "endash" "*" "#"  the single character                            *)
(*   any other kind: the literal word named by k, written here without     *)
(*   its diacritics (see KwWidth)                                          *)
(*   "json": a brace-delimited {...} fragment whose parse is field data    *)
(* Lengths, slices and strip() are computed on character widths, regular   *)
(* expressions on the token sequence.                                      *)
(***************************************************************************)
EXTENDS Naturals, Sequences, FiniteSets

VARIABLES
    files,        \* the entries of input_dir, in rglob order
    environ,      \* os.environ: the recognised settings
    audience,     \* the form field audience
    style,        \* the form field style
    pc,           \* position in upload / process_inputs_and_generate
    corpus,       \* process_inputs_and_generate's local corpus
    attachments,  \* its local attachments
    prompt,       \* its local prompt
    calls,        \* the requests posted to a backend, in order
    reply,        \* what _call_llm returned
    text,         \* its local text after _strip_meta
    phases,       \* its local phases
    tier,         \* the extraction tier that last assigned phases
    steps,        \* the nodes _make_png_from_phases drew
    written,      \* the artifact files written under output_dir
    raised,       \* the exception that left process_inputs_and_generate
    result,       \* the dict it returned
    response      \* the status code of upload's JSONResponse (0: none yet)

vars == <<files, environ, audience, style, pc, corpus, attachments, prompt,
          calls, reply, text, phases, tier, steps, written, raised, result, response>>

(***************************************************************************)
(* Tokens                                                                  *)
(***************************************************************************)
Sp(n) == [k |-> "sp", w |-> n]
NL == [k |-> "nl", w |-> 1]
X(n) == [k |-> "x", w |-> n]
Y(n) == [k |-> "y", w |-> n]
Dash == [k |-> "-", w |-> 1]
EnDash == [k |-> "endash", w |-> 1]
Star == [k |-> "*", w |-> 1]
Hash == [k |-> "#", w |-> 1]

\* Character count of the literal words that occur as tokens.
KwWidth(k) ==
    CASE k = "Prehled fazi" -> 12
      [] k = "PREHLED FAZI" -> 12
      [] k = "Pouzij" -> 6
      [] k = "format" -> 6
      [] k = "Nepopisuj" -> 9
      [] k = "NEPOPISUJ" -> 9
      [] k = "Vytvor tabulku" -> 14
      [] k = "Uved" -> 4
      [] k = "Text napis" -> 10
      [] k = "Zdrojovy text" -> 13
      [] k = "Zdrojovy" -> 8
      [] k = "Vrat jen" -> 8
      [] k = "Vypis" -> 5
      [] k = "fence_json" -> 7
      [] k = "fence" -> 3
      [] k = "POZNAMKA" -> 69

Kw(k) == [k |-> k, w |-> KwWidth(k)]

\* A {...} fragment of w characters; data is what json.loads makes of it.
Json(n, d) == [k |-> "json", w |-> n, data |-> d]

\* White space, as the regular expressions' whitespace class and str.strip() see it.
IsWs(t) == t.k \in {"sp", "nl"}

RECURSIVE StrLen(_)
\* len(s)
StrLen(s) == IF s = <<>> THEN 0 ELSE Head(s).w + StrLen(Tail(s))

\* The first n characters of one token: runs shorten, a literal word or a
\* {...} fragment cut in the middle is ordinary text.
CutToken(t, n) ==
    IF t.k \in {"sp", "x", "y"} THEN [k |-> t.k, w |-> n] ELSE X(n)

RECURSIVE StrTake(_, _)
\* s[:n]
StrTake(s, n) ==
    IF s = <<>> \/ n = 0 THEN <<>>
    ELSE IF Head(s).w <= n THEN <<Head(s)>> \o StrTake(Tail(s), n - Head(s).w)
    ELSE <<CutToken(Head(s), n)>>

\* not s.strip()
IsBlank(s) == \A i \in 1..Len(s) : IsWs(s[i])

RECURSIVE LStrip(_)
LStrip(s) == IF s # <<>> /\ IsWs(Head(s)) THEN LStrip(Tail(s)) ELSE s

RECURSIVE RStrip(_)
RStrip(s) ==
    IF s # <<>> /\ IsWs(s[Len(s)]) THEN RStrip(SubSeq(s, 1, Len(s) - 1)) ELSE s

\* s.strip()
Strip(s) == RStrip(LStrip(s))

RECURSIVE Join(_, _)
\* sep.join(parts)
Join(parts, sep) ==
    IF parts = <<>> THEN <<>>
    ELSE IF Len(parts) = 1 THEN parts[1]
    ELSE parts[1] \o sep \o Join(Tail(parts), sep)

(***************************************************************************)
(* File names: sequences of character codes, so that sorted() and          *)
(* Path.suffix are computed on the characters.                             *)
(***************************************************************************)
\* str.lower() on the ASCII letters
LowerCode(c) == IF c >= 65 /\ c <= 90 THEN c + 32 ELSE c
Lower(name) == [i \in 1..Len(name) |-> LowerCode(name[i])]

\* pathlib's Path.suffix: from the last dot of the name, if that dot is
\* neither the first nor the last character.
Suffix(name) ==
    LET dots == {i \in 1..Len(name) : name[i] = 46}
        last == CHOOSE i \in dots : \A j \in dots : j <= i
    IN IF dots = {} THEN <<>>
       ELSE IF last = 1 \/ last = Len(name) THEN <<>>
       ELSE SubSeq(name, last, Len(name))

ExtDocx == <<46, 100, 111, 99, 120>>
ExtPdf == <<46, 112, 100, 102>>
ExtTxt == <<46, 116, 120, 116>>
ExtMd == <<46, 109, 100>>

\* An entry of input_dir.rglob("*"): name (base name), dir (0: input_dir
\* itself, d > 0: the d-th sub-directory), isfile, content (what the
\* format's extractor yields) and ok (FALSE: the extractor raises).
_read_text_from_path(p) ==
    LET suffix == Lower(Suffix(p.name))
    IN IF suffix \in {ExtDocx, ExtPdf, ExtTxt, ExtMd}
       THEN (IF p.ok THEN p.content ELSE <<>>)
       ELSE <<>>

CorpusCap == 200000

\* CorpusRejected with the emptiness check left out
CorpusRejectedNever(joined) == FALSE

\* Whether _collect_corpus raises GenerationError for the joined corpus.
CorpusRejected(joined) == IsBlank(joined)

RECURSIVE Keep(_, _, _, _)
\* The elements of s[lo..hi] whose index is in idx, in order
Keep(s, idx, lo, hi) ==
    IF lo > hi THEN <<>>
    ELSE IF lo = hi THEN (IF lo \in idx THEN <<s[lo]>> ELSE <<>>)
    ELSE Keep(s, idx, lo, (lo + hi) \div 2) \o Keep(s, idx, (lo + hi) \div 2 + 1, hi)

\* texts: one entry per regular file, in rglob order
ReadAll(fs) ==
    Keep([i \in 1..Len(fs) |-> _read_text_from_path(fs[i])],
         {i \in 1..Len(fs) : fs[i].isfile}, 1, Len(fs))

\* [t for t in texts if t.strip()]
NonBlankTexts(texts) ==
    Keep(texts, {i \in 1..Len(texts) : ~IsBlank(texts[i])}, 1, Len(texts))

\* _collect_corpus: [raises |-> GenerationError raised, val |-> returned str]
_collect_corpus(fs) ==
    LET texts == ReadAll(fs)
        joined == Join(NonBlankTexts(texts), <<NL, NL>>)
    IN IF CorpusRejected(joined)
       THEN [raises |-> TRUE, val |-> <<>>]
       ELSE [raises |-> FALSE, val |-> StrTake(joined, CorpusCap)]

(***************************************************************************)
(* _list_attachments                                                       *)
(***************************************************************************)
AttachCap == 300

RECURSIVE LexLess(_, _)
\* a < b for two Python strings given by their character codes
LexLess(a, b) ==
    IF b = <<>> THEN FALSE
    ELSE IF a = <<>> THEN TRUE
    ELSE IF Head(a) # Head(b) THEN Head(a) < Head(b)
    ELSE LexLess(Tail(a), Tail(b))

\* The least string of a non-empty set
LexMin(names) == CHOOSE a \in names : \A b \in names : ~LexLess(b, a)

RECURSIVE Ascend(_, _)
\* The strings of the set names in ascending order, each as often as it
\* occurs in s
Ascend(names, s) ==
    IF names = {} THEN <<>>
    ELSE LET least == LexMin(names)
             count == Cardinality({i \in 1..Len(s) : s[i] = least})
         IN [i \in 1..count |-> least] \o Ascend(names \ {least}, s)

\* sorted(s): the ascending arrangement of s
Sorted(s) == Ascend({s[i] : i \in 1..Len(s)}, s)

\* out: p.name of every regular file, in rglob order
FileNames(fs) ==
    Keep([i \in 1..Len(fs) |-> fs[i].name], {i \in 1..Len(fs) : fs[i].isfile}, 1, Len(fs))

\* CapNames with the slice forgotten
CapNamesUncapped(names) == names

\* the slice [:300] of the sorted names
CapNames(names) == SubSeq(names, 1, IF Len(names) < AttachCap THEN Len(names) ELSE AttachCap)

_list_attachments(fs) == CapNames(Sorted(FileNames(fs)))

(***************************************************************************)
(* _build_prompt                                                           *)
(***************************************************************************)
RECURSIVE ReprWidth(_)
\* len(str(names)) less the two brackets: 'name' per entry, ", " between
ReprWidth(names) ==
    IF names = <<>> THEN 0
    ELSE Len(Head(names)) + 2
         + (IF Len(names) > 1 THEN 2 ELSE 0) + ReprWidth(Tail(names))

\* The text that {attachments} interpolates: str() of the list.
Repr(names) == [k |-> "repr", w |-> ReprWidth(names) + 2, names |-> names]

\* The f-string of _build_prompt, line by line.  Only {attachments} and
\* {corpus} are interpolated: audience and style do not occur in it.
_build_prompt(c, aud, sty, atts) ==
    <<NL,
      X(87), NL,
      Kw("Nepopisuj"), X(69), NL,
      X(66), NL,
      NL,
      Kw("Vrat jen"), X(48), NL,
      NL,
      Hash, Sp(1), X(19), NL,
      X(52), NL,
      NL,
      Hash, Hash, Sp(1), X(4), NL,
      X(54), NL,
      NL,
      Hash, Hash, Sp(1), Kw("Prehled fazi"), NL,
      X(83), NL,
      NL,
      Hash, Hash, Sp(1), X(20), NL,
      X(20), NL,
      X(37), NL,
      X(100), NL,
      Repr(atts), NL,
      NL,
      Hash, Hash, Sp(1), X(18), NL,
      X(50), NL,
      NL,
      Kw("Zdrojovy"), X(59), NL>>
    \o c \o <<NL>>

(***************************************************************************)
(* _call_llm                                                               *)
(***************************************************************************)
\* os.getenv(name): "unset" is None, "empty" is "", "set" a non-empty value
EnvValues == {"unset", "empty", "set"}

\* Python truth of an os.getenv() result
Truthy(v) == v = "set"

\* SelectBackend with the direct key looked at first
SelectBackendDirectFirst(env) ==
    IF Truthy(env.OPENAI_API_KEY) THEN "openai"
    ELSE IF Truthy(env.AZURE_OPENAI_KEY) /\ Truthy(env.AZURE_OPENAI_ENDPOINT)
            /\ Truthy(env.AZURE_OPENAI_DEPLOYMENT)
    THEN "azure"
    ELSE "none"

\* The branch _call_llm takes: "azure", "openai" or "none"
SelectBackend(env) ==
    IF Truthy(env.AZURE_OPENAI_KEY) /\ Truthy(env.AZURE_OPENAI_ENDPOINT)
       /\ Truthy(env.AZURE_OPENAI_DEPLOYMENT)
    THEN "azure"
    ELSE IF Truthy(env.OPENAI_API_KEY) THEN "openai"
    ELSE "none"

PlaceholderPrefix == 1500

\* The string returned when no backend is configured.
Placeholder(p) == <<Kw("POZNAMKA"), NL, NL>> \o StrTake(p, PlaceholderPrefix)

(***************************************************************************)
(* _strip_meta                                                             *)
(***************************************************************************)
\* re.I: the upper-case spellings match as the capitalised ones do
CaseFold(k) ==
    CASE k = "NEPOPISUJ" -> "Nepopisuj"
      [] k = "PREHLED FAZI" -> "Prehled fazi"
      [] OTHER -> k

\* Index of the first line feed of s, or 0
FirstNL(s) ==
    LET nls == {i \in 1..Len(s) : s[i].k = "nl"}
    IN IF nls = {} THEN 0 ELSE CHOOSE i \in nls : \A j \in nls : i <= j

RECURSIVE SplitLines(_)
\* s.splitlines(): no empty last line after a final line feed
SplitLines(s) ==
    IF s = <<>> THEN <<>>
    ELSE LET n == FirstNL(s)
         IN IF n = 0 THEN <<s>>
            ELSE <<SubSeq(s, 1, n - 1)>> \o SplitLines(SubSeq(s, n + 1, Len(s)))

\* any(re.search(p, l.strip(), flags=re.I) for p in META_PATTERNS): every
\* pattern is anchored at the start of the stripped line
MatchesMeta(line) ==
    LET l == Strip(line)
    IN /\ l # <<>>
       /\ \/ CaseFold(l[1].k) \in {"Nepopisuj", "Vytvor tabulku", "Uved", "Text napis",
                                   "Zdrojovy text", "Vrat jen", "Vypis"}
          \/ /\ CaseFold(l[1].k) = "Pouzij"
             /\ \E i \in 2..Len(l) : CaseFold(l[i].k) = "format"

RECURSIVE Cleaned(_)
\* cleaned: the lines no pattern matches
Cleaned(lines) ==
    IF lines = <<>> THEN <<>>
    ELSE (IF MatchesMeta(Head(lines)) THEN <<>> ELSE <<Head(lines)>>)
         \o Cleaned(Tail(lines))

\* CleanedUsable as `if cleaned`, in place of the any(...)
CleanedUsableIfAny(cleaned) == cleaned # <<>>

\* any(s.strip() for s in cleaned)
CleanedUsable(cleaned) == \E i \in 1..Len(cleaned) : ~IsBlank(cleaned[i])

_strip_meta(t) ==
    LET cleaned == Cleaned(SplitLines(t))
    IN IF CleanedUsable(cleaned) THEN Join(cleaned, <<NL>>) ELSE t

(***************************************************************************)
(* _extract_phases_from_json_block                                         *)
(*                                                                         *)
(* The data of a "json" token is what json.loads returns for it:           *)
(*   [valid |-> FALSE]                  json.loads raises                  *)
(*   [valid |-> TRUE, phases |-> v]     an object; v is data.get("phases") *)
(* with v one of [t |-> "absent"], [t |-> "scalar"] (a number or null) or  *)
(* [t |-> "list", items |-> ...], an item being [t |-> "str", s |-> ...],   *)
(* [t |-> "num"] or [t |-> "obj", has_name |-> ..., name |-> item].          *)
(***************************************************************************)
\* First index >= i of s that holds no white space (Len(s) + 1 if none)
SkipWs(s, i) ==
    LET rest == {j \in i..Len(s) : ~IsWs(s[j])}
    IN IF rest = {} THEN Len(s) + 1 ELSE CHOOSE j \in rest : \A m \in rest : j <= m

IsFence(t) == t.k \in {"fence", "fence_json"}

\* The {...} group of the first match of the fenced-block pattern from the
\* opening fence at i: <<first, last>> token indices, or <<0, 0>>
JsonGroupAt(s, i) ==
    LET j == SkipWs(s, i + 1)
        ends == {e \in j..Len(s) :
                   /\ s[e].k = "json"
                   /\ SkipWs(s, e + 1) <= Len(s)
                   /\ IsFence(s[SkipWs(s, e + 1)])}
    IN IF j > Len(s) \/ ends = {} THEN <<0, 0>>
       ELSE IF s[j].k # "json" THEN <<0, 0>>
       ELSE <<j, CHOOSE e \in ends : \A m \in ends : e <= m>>

\* re.search: the group of the leftmost match, or <<0, 0>>
JsonSearch(s) ==
    LET opens == {i \in 1..Len(s) : s[i].k = "fence_json" /\ JsonGroupAt(s, i) # <<0, 0>>}
    IN IF opens = {} THEN <<0, 0>>
       ELSE JsonGroupAt(s, CHOOSE i \in opens : \A m \in opens : i <= m)

\* Marks a list comprehension that raised
Raise == <<[t |-> "raise"]>>

RECURSIVE ItemNames(_)
\* [x["name"] for x in phases]: Raise if an item is no object with a name
ItemNames(items) ==
    IF items = <<>> THEN <<>>
    ELSE IF Head(items).t # "obj" THEN Raise
    ELSE IF ~Head(items).has_name THEN Raise
    ELSE LET rest == ItemNames(Tail(items))
         IN IF rest = Raise THEN rest ELSE <<Head(items).name>> \o rest

RECURSIVE TrimmedStrings(_)
\* [p.strip() for p in phases if isinstance(p, str) and p.strip()]
TrimmedStrings(items) ==
    IF items = <<>> THEN <<>>
    ELSE (IF Head(items).t = "str" /\ ~IsBlank(Head(items).s)
          THEN <<Strip(Head(items).s)>> ELSE <<>>)
         \o TrimmedStrings(Tail(items))

\* The try block applied to the parsed data
PhasesOfData(data) ==
    IF ~data.valid THEN <<>>
    ELSE IF data.phases.t = "absent" THEN <<>>
    ELSE IF data.phases.t # "list" THEN <<>>
    ELSE LET items == data.phases.items
         IN IF items # <<>> /\ items[1].t = "obj" /\ items[1].has_name
            THEN (IF ItemNames(items) = Raise THEN <<>>
                  ELSE TrimmedStrings(ItemNames(items)))
            ELSE TrimmedStrings(items)

_extract_phases_from_json_block(t) ==
    LET g == JsonSearch(t)
    IN IF g = <<0, 0>> THEN <<>>
       ELSE IF g[1] # g[2] THEN <<>>
       ELSE PhasesOfData(t[g[1]].data)

(***************************************************************************)
(* _first_bullets_as_phases                                                *)
(***************************************************************************)
MaxItems == 12

\* ^ under re.M: the start of the string or just after a line feed
LineStart(s, i) == i = 1 \/ (i > 1 /\ i <= Len(s) + 1 /\ s[i - 1].k = "nl")

\* Index of the last token of the line that holds token i
LineEnd(s, i) ==
    LET nls == {j \in i..Len(s) : s[j].k = "nl"}
    IN IF nls = {} THEN Len(s) ELSE (CHOOSE j \in nls : \A m \in nls : j <= m) - 1

\* The heading pattern matched at i: two hashes at a line start, white
\* space (line feeds included), the heading words, then the rest of the line
HeadingAt(s, i) ==
    /\ LineStart(s, i)
    /\ i + 3 <= Len(s)
    /\ s[i].k = "#" /\ s[i + 1].k = "#"
    /\ IsWs(s[i + 2])
    /\ SkipWs(s, i + 2) <= Len(s)
    /\ CaseFold(s[SkipWs(s, i + 2)].k) = "Prehled fazi"

\* block[1] of re.split(..., maxsplit=1): what follows the first heading
\* match; [found |-> FALSE] when len(block) < 2
AfterHeading(s) ==
    LET hs == {i \in 1..Len(s) : HeadingAt(s, i)}
        h == CHOOSE i \in hs : \A m \in hs : i <= m
        e == LineEnd(s, SkipWs(s, h + 2))
    IN IF hs = {} THEN [found |-> FALSE, after |-> <<>>]
       ELSE [found |-> TRUE, after |-> SubSeq(s, e + 1, Len(s))]

IsBullet(t) == t.k \in {"-", "*"}

\* The bullet pattern tried at the line start i: [ok, item, end].  The
\* white space before and after the bullet may run over line feeds; when
\* only white space follows the bullet the pattern backs up to a space.
BulletAt(s, i) ==
    LET a == SkipWs(s, i)
        b == SkipWs(s, a + 1)
        sps == {j \in (a + 1)..Len(s) : s[j].k = "sp"}
        q == CHOOSE j \in sps : \A m \in sps : m <= j
        no == [ok |-> FALSE, item |-> <<>>, end |-> 0]
    IN IF a > Len(s) THEN no
       ELSE IF ~IsBullet(s[a]) THEN no
       ELSE IF b <= Len(s)
       THEN [ok |-> TRUE, item |-> SubSeq(s, b, LineEnd(s, b)), end |-> LineEnd(s, b)]
       ELSE IF sps = {} THEN no
       ELSE [ok |-> TRUE, item |-> <<Sp(1)>>, end |-> q]

\* The least line start from i on at which the bullet pattern matches, or 0
NextBullet(s, i) ==
    LET starts == {j \in i..Len(s) : LineStart(s, j) /\ BulletAt(s, j).ok}
    IN IF starts = {} THEN 0 ELSE CHOOSE m \in starts : \A n \in starts : m <= n

RECURSIVE FindBullets(_, _)
RECURSIVE FindBulletsFrom(_, _)
\* The item of the match m, then the matches after its end
FindBulletsFrom(s, m) == <<m.item>> \o FindBullets(s, m.end + 1)

\* re.findall over s from index i on: the items of the successive matches
FindBullets(s, i) ==
    IF NextBullet(s, i) = 0 THEN <<>>
    ELSE FindBulletsFrom(s, BulletAt(s, NextBullet(s, i)))

\* re.sub of the dash pattern, then strip(): the item up to its first dash
CutAtDash(it) ==
    LET ds == {j \in 1..Len(it) : it[j].k \in {"-", "endash"}}
        d == CHOOSE j \in ds : \A m \in ds : j <= m
    IN IF ds = {} THEN Strip(it) ELSE Strip(SubSeq(it, 1, d - 1))

\* The items the fallback scans: every match of the bullet pattern in the
\* text after the heading
BulletItems(after) == FindBullets(after, 1)

\* [re.sub(...).strip() for it in items][:max_items]
NamesOf(items) ==
    [n \in 1..(IF Len(items) < MaxItems THEN Len(items) ELSE MaxItems) |-> CutAtDash(items[n])]

\* The return for block = re.split(...)
PhasesOfBlock(block) ==
    IF ~block.found THEN <<>> ELSE NamesOf(BulletItems(block.after))

_first_bullets_as_phases(t) == PhasesOfBlock(AfterHeading(t))

(***************************************************************************)
(* Inputs: uploaded trees, environments, form fields, backend completions  *)
(***************************************************************************)
MaxFiles == 2        \* entries of a tree given to the collector and the prompt
MaxPipeFiles == 1    \* entries of a tree given to a whole request
MaxDup == 2          \* sub-directories holding a file of one base name
MaxLines == 3        \* fragments of a completion given to the post-processor
MaxReplyLines == 1   \* fragments of a completion answered within a request

NameA == <<97, 46, 116, 120, 116>>          \* a.txt
NameB == <<98, 46, 109, 100>>               \* b.md
NameC == <<99, 46, 112, 100, 102>>          \* c.pdf
NameD == <<100, 46, 100, 111, 99, 120>>     \* d.docx
NameE == <<101, 46, 112, 110, 103>>         \* e.png
NameF == <<70, 46, 84, 88, 84>>             \* F.TXT
NameAB == <<97, 98, 46, 116, 120, 116>>     \* ab.txt
NameZ == <<122, 46, 116, 120, 116>>         \* z.txt
NameSub == <<115, 117, 98>>                 \* sub (a directory)

Entry(n, d, f, c, o) == [name |-> n, dir |-> d, isfile |-> f, content |-> c, ok |-> o]

FileChoices ==
    { Entry(NameA, 0, TRUE, <<X(5)>>, TRUE),
      Entry(NameA, 1, TRUE, <<Sp(3)>>, TRUE),
      Entry(NameA, 2, TRUE, <<Sp(CorpusCap), X(1)>>, TRUE),
      Entry(NameB, 0, TRUE, <<Sp(CorpusCap - 1), X(1)>>, TRUE),
      Entry(NameB, 1, TRUE, <<>>, TRUE),
      Entry(NameC, 0, TRUE, <<X(CorpusCap + 1)>>, TRUE),
      Entry(NameD, 0, TRUE, <<X(4)>>, FALSE),
      Entry(NameE, 0, TRUE, <<X(4)>>, TRUE),
      Entry(NameF, 0, TRUE, <<NL, Y(2), NL>>, TRUE),
      Entry(NameSub, 0, FALSE, <<>>, TRUE) }

\* The listings of at most n distinct entries
Trees(n) ==
    {fs \in UNION {[1..m -> FileChoices] : m \in 0..n} :
        \A i, j \in 1..Len(fs) : i # j => fs[i] # fs[j]}

\* A tree with one readable file and, for each of four base names, the
\* file of that name in the given number of sub-directories
Copies(name, n) == [d \in 1..n |-> Entry(name, d, TRUE, <<>>, TRUE)]
DeepTree(na, nb, nf, nab) ==
    Copies(NameB, nb) \o <<Entry(NameZ, 0, TRUE, <<X(5)>>, TRUE)>> \o Copies(NameAB, nab)
    \o Copies(NameA, na) \o Copies(NameF, nf)

DeepTrees ==
    {DeepTree(na, nb, nf, nab) :
        na \in {0, 1, AttachCap - 2, AttachCap + 1}, nb \in 0..MaxDup,
        nf \in 0..MaxDup, nab \in 0..MaxDup}

Env(k, e, d, o, sp) ==
    [AZURE_OPENAI_KEY |-> k, AZURE_OPENAI_ENDPOINT |-> e, AZURE_OPENAI_DEPLOYMENT |-> d,
     OPENAI_API_KEY |-> o, AZURE_SPEECH_KEY |-> sp]

EnvChoices ==
    { Env("unset", "unset", "unset", "unset", "unset"),
      Env("set", "set", "set", "set", "set"),
      Env("set", "unset", "set", "set", "unset"),
      Env("set", "empty", "set", "unset", "set"),
      Env("unset", "unset", "unset", "set", "set") }

Audiences == {<<X(17)>>, <<Y(8)>>}
Styles == {<<X(5)>>, <<Y(7)>>}

\* json.loads results of the {...} fragments used below
StrItem(str) == [t |-> "str", s |-> str]
ObjItem(str) == [t |-> "obj", has_name |-> TRUE, name |-> StrItem(str)]
ListData(items) == [valid |-> TRUE, phases |-> [t |-> "list", items |-> items]]

Fragments ==
    { <<Hash, Hash, Sp(1), Kw("Prehled fazi")>>,
      <<Hash, Hash, Sp(1), X(5)>>,
      <<Dash, Sp(1), X(6), Sp(1), EnDash, Sp(1), X(8)>>,
      <<Star, Sp(1), Y(6)>>,
      <<Dash, Sp(1), EnDash, Sp(1), X(4)>>,
      <<Dash, Dash, Dash>>,
      <<Dash>>,
      <<X(12)>>,
      <<>>,
      <<Kw("Nepopisuj"), Sp(1), X(5)>>,
      <<Sp(2), Kw("NEPOPISUJ")>>,
      <<Kw("Pouzij"), Sp(1), X(3), Sp(1), Kw("format")>>,
      <<Kw("Pouzij"), Sp(1), X(3)>>,
      <<Kw("fence_json"), NL,
        Json(20, ListData(<<StrItem(<<Sp(1), X(1), Sp(1)>>), StrItem(<<Y(1)>>),
                            StrItem(<<Sp(2)>>)>>)),
        NL, Kw("fence")>>,
      <<Kw("fence_json"), Sp(1),
        Json(30, ListData(<<ObjItem(<<X(2)>>), ObjItem(<<Y(2), Sp(1)>>)>>)),
        Sp(1), Kw("fence")>>,
      <<Kw("fence_json"), Json(8, ListData(<<StrItem(<<Sp(1)>>), [t |-> "num"]>>)),
        Kw("fence")>>,
      <<Kw("fence_json"), Json(9, [valid |-> FALSE]), Kw("fence")>> }

\* The completions of at most n fragments, one per line
Texts(n) == {Join(ls, <<NL>>) : ls \in UNION {[1..m -> Fragments] : m \in 0..n}}

\* What a backend may answer
BackendTexts == Texts(MaxReplyLines)

(***************************************************************************)
(* process_inputs_and_generate and the upload handler around it            *)
(***************************************************************************)
MaxSteps == 14

\* TierSucceeded with the fall-through test left out
TierSucceededAlways(p) == TRUE

\* `if not phases`: the tier yielded something
TierSucceeded(p) == p # <<>>

\* The fixed list assigned when both tiers yield nothing
DefaultPhases == <<<<X(8)>>, <<X(10)>>, <<X(9)>>, <<Y(9)>>, <<Y(8)>>>>

\* steps of _make_png_from_phases
DiagramSteps(p) ==
    IF p # <<>> THEN SubSeq(p, 1, IF Len(p) < MaxSteps THEN Len(p) ELSE MaxSteps)
    ELSE <<<<X(6)>>, <<Y(6)>>>>

\* USE_AZURE_SPEECH
UseAzureSpeech(env) == Truthy(env.AZURE_SPEECH_KEY)

\* The except clauses of upload: the status code for what was raised
StatusFor(exc) ==
    IF exc = "GenerationError" THEN 400
    ELSE IF exc = "Exception" THEN 500
    ELSE 200

NoResult == [returned |-> FALSE, docx |-> "None", png |-> "None", audio |-> "None"]

\* corpus = _collect_corpus(input_dir)
Collect ==
    /\ pc = "collect"
    /\ LET r == _collect_corpus(files)
       IN /\ corpus' = r.val
          /\ raised' = IF r.raises THEN "GenerationError" ELSE raised
          /\ pc' = IF r.raises THEN "respond" ELSE "list"
    /\ UNCHANGED <<files, environ, audience, style, attachments, prompt, calls,
                   reply, text, phases, tier, steps, written, result, response>>

\* attachments = _list_attachments(input_dir)
List ==
    /\ pc = "list"
    /\ attachments' = _list_attachments(files)
    /\ pc' = "build"
    /\ UNCHANGED <<files, environ, audience, style, corpus, prompt, calls,
                   reply, text, phases, tier, steps, written, raised, result, response>>

\* prompt = _build_prompt(corpus, audience, style, attachments)
Build ==
    /\ pc = "build"
    /\ prompt' = _build_prompt(corpus, audience, style, attachments)
    /\ pc' = "call"
    /\ UNCHANGED <<files, environ, audience, style, corpus, attachments, calls,
                   reply, text, phases, tier, steps, written, raised, result, response>>

\* _call_llm up to its await: the request is posted to the selected backend
CallPost ==
    /\ pc = "call"
    /\ SelectBackend(environ) # "none"
    /\ calls' = Append(calls, SelectBackend(environ))
    /\ pc' = "await"
    /\ UNCHANGED <<files, environ, audience, style, corpus, attachments, prompt,
                   reply, text, phases, tier, steps, written, raised, result, response>>

\* _call_llm with no backend configured: the placeholder, no request
CallPlaceholder ==
    /\ pc = "call"
    /\ SelectBackend(environ) = "none"
    /\ reply' = Placeholder(prompt)
    /\ pc' = "strip"
    /\ UNCHANGED <<files, environ, audience, style, corpus, attachments, prompt,
                   calls, text, phases, tier, steps, written, raised, result, response>>

\* the awaited post answers with a completion
ResponseOk ==
    /\ pc = "await"
    /\ \E t \in BackendTexts : reply' = t
    /\ pc' = "strip"
    /\ UNCHANGED <<files, environ, audience, style, corpus, attachments, prompt,
                   calls, text, phases, tier, steps, written, raised, result, response>>

\* the post fails, raise_for_status raises or the body lacks the choices:
\* the exception leaves _call_llm and process_inputs_and_generate
ResponseFail ==
    /\ pc = "await"
    /\ raised' = "Exception"
    /\ pc' = "respond"
    /\ UNCHANGED <<files, environ, audience, style, corpus, attachments, prompt,
                   calls, reply, text, phases, tier, steps, written, result, response>>

\* text = _strip_meta(text)
StripMeta ==
    /\ pc = "strip"
    /\ text' = _strip_meta(reply)
    /\ pc' = "json"
    /\ UNCHANGED <<files, environ, audience, style, corpus, attachments, prompt,
                   calls, reply, phases, tier, steps, written, raised, result, response>>

\* phases = _extract_phases_from_json_block(text)
ExtractJson ==
    /\ pc = "json"
    /\ phases' = _extract_phases_from_json_block(text)
    /\ tier' = "json"
    /\ pc' = IF TierSucceeded(phases') THEN "docx" ELSE "bullets"
    /\ UNCHANGED <<files, environ, audience, style, corpus, attachments, prompt,
                   calls, reply, text, steps, written, raised, result, response>>

\* if not phases: phases = _first_bullets_as_phases(text)
FallbackBullets ==
    /\ pc = "bullets"
    /\ phases' = _first_bullets_as_phases(text)
    /\ tier' = "bullets"
    /\ pc' = IF TierSucceeded(phases') THEN "docx" ELSE "default"
    /\ UNCHANGED <<files, environ, audience, style, corpus, attachments, prompt,
                   calls, reply, text, steps, written, raised, result, response>>

\* if not phases: the fixed list
FallbackDefault ==
    /\ pc = "default"
    /\ phases' = DefaultPhases
    /\ tier' = "default"
    /\ pc' = "docx"
    /\ UNCHANGED <<files, environ, audience, style, corpus, attachments, prompt,
                   calls, reply, text, steps, written, raised, result, response>>

\* _make_docx(text, docx_path): the document is saved
MakeDocx ==
    /\ pc = "docx"
    /\ written' = written \cup {"vystup_navod.docx"}
    /\ pc' = "png"
    /\ UNCHANGED <<files, environ, audience, style, corpus, attachments, prompt,
                   calls, reply, text, phases, tier, steps, raised, result, response>>

\* _make_docx raises (python-docx or the file system): nothing catches it
MakeDocxFail ==
    /\ pc = "docx"
    /\ raised' = "Exception"
    /\ pc' = "respond"
    /\ UNCHANGED <<files, environ, audience, style, corpus, attachments, prompt,
                   calls, reply, text, phases, tier, steps, written, result, response>>

\* png_path = _make_png_from_phases(output_dir, phases): the figure is saved
MakePng ==
    /\ pc = "png"
    /\ steps' = DiagramSteps(phases)
    /\ written' = written \cup {"schema.png"}
    /\ pc' = "tts"
    /\ UNCHANGED <<files, environ, audience, style, corpus, attachments, prompt,
                   calls, reply, text, phases, tier, raised, result, response>>

\* _make_png_from_phases raises (matplotlib or the file system): nothing
\* catches it
MakePngFail ==
    /\ pc = "png"
    /\ raised' = "Exception"
    /\ pc' = "respond"
    /\ UNCHANGED <<files, environ, audience, style, corpus, attachments, prompt,
                   calls, reply, text, phases, tier, steps, written, result, response>>

\* audio_path = _make_tts(...) with the synthesis done, then the return
MakeTts ==
    /\ pc = "tts"
    /\ UseAzureSpeech(environ)
    /\ written' = written \cup {"shrnuti.mp3"}
    /\ result' = [returned |-> TRUE, docx |-> "vystup_navod.docx",
                  png |-> "schema.png", audio |-> "shrnuti.mp3"]
    /\ pc' = "respond"
    /\ UNCHANGED <<files, environ, audience, style, corpus, attachments, prompt,
                   calls, reply, text, phases, tier, steps, raised, response>>

\* _make_tts returns None: speech is not configured, or the synthesis
\* raised inside its try block; then the return
MakeTtsNone ==
    /\ pc = "tts"
    /\ result' = [returned |-> TRUE, docx |-> "vystup_navod.docx",
                  png |-> "schema.png", audio |-> "None"]
    /\ pc' = "respond"
    /\ UNCHANGED <<files, environ, audience, style, corpus, attachments, prompt,
                   calls, reply, text, phases, tier, steps, written, raised, response>>

\* upload's JSONResponse: the return of the try block or an except clause
Respond ==
    /\ pc = "respond"
    /\ response' = StatusFor(raised)
    /\ pc' = "done"
    /\ UNCHANGED <<files, environ, audience, style, corpus, attachments, prompt,
                   calls, reply, text, phases, tier, steps, written, raised, result>>

(***************************************************************************)
(* Specifications                                                          *)
(***************************************************************************)
\* The locals of a request that has not begun
Fresh ==
    /\ corpus = <<>> /\ attachments = <<>> /\ prompt = <<>> /\ calls = <<>>
    /\ reply = <<>> /\ text = <<>> /\ phases = <<>> /\ tier = "none" /\ steps = <<>>
    /\ written = {} /\ raised = "none" /\ result = NoResult /\ response = 0

\* A request: upload has stored the files and calls process_inputs_and_generate
Init ==
    /\ files \in Trees(MaxPipeFiles)
    /\ environ \in EnvChoices
    /\ audience = <<X(17)>> /\ style = <<X(5)>>
    /\ pc = "collect"
    /\ Fresh

Next ==
    \/ Collect \/ List \/ Build
    \/ CallPost \/ CallPlaceholder \/ ResponseOk \/ ResponseFail
    \/ StripMeta \/ ExtractJson \/ FallbackBullets \/ FallbackDefault
    \/ MakeDocx \/ MakeDocxFail \/ MakePng \/ MakePngFail
    \/ MakeTts \/ MakeTtsNone \/ Respond

Spec == Init /\ [][Next]_vars

\* _collect_corpus on every tree
InitCorpus ==
    /\ files \in Trees(MaxFiles)
    /\ environ = Env("unset", "unset", "unset", "unset", "unset")
    /\ audience = <<X(17)>> /\ style = <<X(5)>>
    /\ pc = "collect"
    /\ Fresh

SpecCorpus == InitCorpus /\ [][Collect]_vars

\* The locals after the collector, the lister and the prompt builder ran
Prepared(fs, aud, sty) ==
    /\ files = fs /\ audience = aud /\ style = sty
    /\ corpus = _collect_corpus(fs).val
    /\ attachments = _list_attachments(fs)
    /\ prompt = _build_prompt(_collect_corpus(fs).val, aud, sty, _list_attachments(fs))

Idle ==
    /\ calls = <<>> /\ reply = <<>> /\ text = <<>> /\ phases = <<>> /\ tier = "none"
    /\ steps = <<>> /\ written = {} /\ raised = "none" /\ result = NoResult
    /\ response = 0

\* _list_attachments on deep trees, the corpus collected
InitAttach ==
    /\ files \in DeepTrees
    /\ environ = Env("unset", "unset", "unset", "unset", "unset")
    /\ audience = <<X(17)>> /\ style = <<X(5)>>
    /\ pc = "list"
    /\ corpus = _collect_corpus(files).val
    /\ attachments = <<>> /\ prompt = <<>>
    /\ Idle

SpecAttach == InitAttach /\ [][List]_vars

\* _build_prompt on every tree with text, audience and style
InitPrompt ==
    /\ files \in {fs \in Trees(MaxFiles) : ~_collect_corpus(fs).raises}
    /\ environ = Env("unset", "unset", "unset", "unset", "unset")
    /\ audience \in Audiences /\ style \in Styles
    /\ pc = "build"
    /\ corpus = _collect_corpus(files).val
    /\ attachments = _list_attachments(files)
    /\ prompt = <<>>
    /\ Idle

SpecPrompt == InitPrompt /\ [][Build]_vars

\* _call_llm under every configuration of the four backend settings
InitLLM ==
    /\ \E fs \in {t \in Trees(MaxPipeFiles) : ~_collect_corpus(t).raises} :
          Prepared(fs, <<X(17)>>, <<X(5)>>)
    /\ \E k, e, d, o \in EnvValues : environ = Env(k, e, d, o, "unset")
    /\ pc = "call"
    /\ Idle

NextLLM == CallPost \/ CallPlaceholder \/ ResponseOk \/ ResponseFail

SpecLLM == InitLLM /\ [][NextLLM]_vars

\* The post-processing of every completion a backend returned
InitPost ==
    /\ Prepared(<<Entry(NameA, 0, TRUE, <<X(5)>>, TRUE)>>, <<X(17)>>, <<X(5)>>)
    /\ environ = Env("unset", "unset", "unset", "set", "unset")
    /\ pc = "strip"
    /\ calls = <<"openai">>
    /\ reply \in Texts(MaxLines)
    /\ text = <<>> /\ phases = <<>> /\ tier = "none"
    /\ steps = <<>> /\ written = {} /\ raised = "none" /\ result = NoResult
    /\ response = 0

NextPost ==
    \/ StripMeta \/ ExtractJson \/ FallbackBullets \/ FallbackDefault
    \/ MakeDocx \/ MakePng

SpecPost == InitPost /\ [][NextPost]_vars

(***************************************************************************)
(* Claims                                                                  *)
(***************************************************************************)
\* C3: whenever _collect_corpus returns instead of raising, the corpus it
\* returns (after the cut to the cap) is neither empty nor all white space.
C3_ReturnedCorpusNotBlank ==
    pc = "list" => ~IsBlank(corpus)

\* s holds sub as a contiguous part
Contains(s, sub) ==
    \E i \in 1..(Len(s) + 1) :
        i + Len(sub) - 1 <= Len(s) /\ SubSeq(s, i, i + Len(sub) - 1) = sub

Ascending(names) ==
    \A i \in 1..(Len(names) - 1) : ~LexLess(names[i + 1], names[i])

\* Number of regular files of the tree with the base name n
Bearing(fs, n) == Cardinality({i \in 1..Len(fs) : fs[i].isfile /\ fs[i].name = n})

Occurrences(names, n) == Cardinality({i \in 1..Len(names) : names[i] = n})

RegularFiles(fs) == Cardinality({i \in 1..Len(fs) : fs[i].isfile})

\* C7 as stated: the list is sorted, holds at most 300 base names and no
\* name occurs in it more than once.
C7_SortedCappedUnique ==
    pc = "build" =>
        /\ Ascending(attachments)
        /\ Len(attachments) <= AttachCap
        /\ \A n \in {attachments[i] : i \in 1..Len(attachments)} :
              Bearing(files, n) > 0 /\ Occurrences(attachments, n) = 1

\* C7 as amended: the list is sorted and holds the first 300 base names,
\* one entry per regular file: a name occurs at most as often as files
\* bear it, and exactly as often when the tree has at most 300 files.
C7_SortedCappedPerFile ==
    pc = "build" =>
        /\ Ascending(attachments)
        /\ Len(attachments) <= AttachCap
        /\ Len(attachments) = (IF RegularFiles(files) < AttachCap
                               THEN RegularFiles(files) ELSE AttachCap)
        /\ \A n \in {attachments[i] : i \in 1..Len(attachments)} :
              /\ Occurrences(attachments, n) <= Bearing(files, n)
              /\ RegularFiles(files) <= AttachCap =>
                    Occurrences(attachments, n) = Bearing(files, n)
        /\ RegularFiles(files) <= AttachCap =>
              \A i \in 1..Len(files) :
                  files[i].isfile => Occurrences(attachments, files[i].name) > 0

\* C7 witness: a tree of more than 300 files, two of them sharing a base
\* name, has been listed.
C7_Witness ==
    /\ pc = "build"
    /\ RegularFiles(files) > AttachCap
    /\ Len(attachments) = AttachCap
    /\ \E i \in 1..(Len(attachments) - 1) : attachments[i] = attachments[i + 1]
    /\ \E i \in 1..(Len(attachments) - 1) : attachments[i] # attachments[i + 1]

\* C8: the request text holds the supplied audience, and a call that
\* differs only in the audience yields a different request text.
C8_PromptEncodesAudience ==
    pc = "call" =>
        /\ Contains(prompt, audience)
        /\ \A a \in Audiences \ {audience} :
              _build_prompt(corpus, a, style, attachments) # prompt

Min(a, b) == IF a < b THEN a ELSE b

\* b is the first StrLen(b) characters of p
IsCharPrefix(b, p) ==
    /\ Len(b) <= Len(p)
    /\ \A i \in 1..(Len(b) - 1) : b[i] = p[i]
    /\ b # <<>> =>
          \/ b[Len(b)] = p[Len(b)]
          \/ /\ b[Len(b)].w < p[Len(b)].w
             /\ b[Len(b)].k = (IF p[Len(b)].k \in {"sp", "x", "y"} THEN p[Len(b)].k ELSE "x")

ManagedPresent ==
    /\ environ.AZURE_OPENAI_KEY = "set"
    /\ environ.AZURE_OPENAI_ENDPOINT = "set"
    /\ environ.AZURE_OPENAI_DEPLOYMENT = "set"

DirectPresent == environ.OPENAI_API_KEY = "set"

\* C1: the managed backend is called iff its three settings are present,
\* otherwise the direct backend iff its key is present, otherwise nothing
\* is called and the placeholder with a prefix of the prompt is returned;
\* at most one request is ever posted, also after a failed one.
C1_BackendPrecedence ==
    /\ Len(calls) <= 1
    /\ pc = "call" => calls = <<>>
    /\ pc # "call" =>
          calls = (IF ManagedPresent THEN <<"azure">>
                   ELSE IF DirectPresent THEN <<"openai">> ELSE <<>>)
    /\ (pc = "respond" /\ raised = "Exception") => Len(calls) = 1
    /\ (pc = "strip" /\ ~ManagedPresent /\ ~DirectPresent) =>
          /\ Len(reply) >= 3
          /\ SubSeq(reply, 1, 3) = <<Kw("POZNAMKA"), NL, NL>>
          /\ IsCharPrefix(SubSeq(reply, 4, Len(reply)), prompt)
          /\ StrLen(SubSeq(reply, 4, Len(reply))) = Min(StrLen(prompt), PlaceholderPrefix)

\* C1 witness: all four settings are present and the managed backend, and
\* only it, was called and answered.
C1_Witness ==
    /\ pc = "strip"
    /\ ManagedPresent /\ DirectPresent
    /\ calls = <<"azure">>

\* No regular file of the tree yields text
NoText(fs) ==
    \A i \in 1..Len(fs) : fs[i].isfile => IsBlank(_read_text_from_path(fs[i]))

\* C2: a request on a directory without extractable text posts no backend
\* request, writes no artifact, returns no result, and ends with
\* GenerationError answered by status 400.
C2_NoTextIsClientFault ==
    NoText(files) =>
        /\ calls = <<>>
        /\ written = {}
        /\ ~result.returned
        /\ pc \in {"collect", "respond", "done"}
        /\ pc \in {"respond", "done"} => raised = "GenerationError"
        /\ pc = "done" => response = 400

\* C2 witness: a request whose only file holds white space has been answered
\* with 400.
C2_Witness ==
    /\ pc = "done"
    /\ \E i \in 1..Len(files) : files[i].isfile /\ files[i].content # <<>>
    /\ NoText(files)
    /\ response = 400

\* C9: once the corpus was extracted, the backend returned text and the
\* document was written, the request returns the document path and the
\* diagram path, whatever happens in diagram and audio synthesis.
C9_ArtifactsDespiteFailures ==
    (pc = "done" /\ "vystup_navod.docx" \in written) =>
        /\ result.returned
        /\ result.docx = "vystup_navod.docx"
        /\ result.png = "schema.png"
        /\ response = 200

\* p is what the tier order yields from the two tiers' results
ChosenFrom(js, bl, p) ==
    p = (IF js # <<>> THEN js ELSE IF bl # <<>> THEN bl ELSE DefaultPhases)

\* C4: the phases handed on are the structured block's if it yields any,
\* else the bullets' if they yield any, else the fixed five; they are never
\* empty, and the diagram draws min(len, 14) >= 1 nodes from them.
C4_TierOrder ==
    pc \in {"docx", "png", "tts"} =>
        /\ phases # <<>>
        /\ ChosenFrom(_extract_phases_from_json_block(text),
                      _first_bullets_as_phases(text), phases)
        /\ tier = "default" => Len(phases) = 5
        /\ pc = "tts" => (steps # <<>> /\ steps = SubSeq(phases, 1, Min(Len(phases), MaxSteps)))

\* C4 witness: the text holds a structured block with names and a bulleted
\* section, and the block's names were handed to the diagram.
C4_Witness ==
    /\ pc = "tts"
    /\ _extract_phases_from_json_block(text) # <<>>
    /\ _first_bullets_as_phases(text) # <<>>
    /\ _first_bullets_as_phases(text) # _extract_phases_from_json_block(text)
    /\ phases = _extract_phases_from_json_block(text)

\* A line whose first token after leading spaces is a bullet
BulletLine(l) == LStrip(l) # <<>> /\ IsBullet(LStrip(l)[1])

RECURSIVE LeadingRun(_)
\* Number of bullet lines at the head of lines
LeadingRun(lines) ==
    IF lines = <<>> THEN 0
    ELSE IF BulletLine(Head(lines)) THEN 1 + LeadingRun(Tail(lines))
    ELSE 0

RECURSIVE DropBlankLines(_)
DropBlankLines(lines) ==
    IF lines # <<>> /\ IsBlank(Head(lines)) THEN DropBlankLines(Tail(lines)) ELSE lines

\* Number of items of the bulleted list that follows the heading: the
\* bullet lines up to the first line that is none
LeadingBullets(t) ==
    IF ~AfterHeading(t).found THEN 0
    ELSE LeadingRun(DropBlankLines(SplitLines(AfterHeading(t).after)))

\* C5: the bullet fallback returns at most 12 names, none of them holding a
\* dash, and only those of the bulleted list that follows the heading:
\* never more than that list has items.
C5_OnlyLeadingBullets ==
    (tier = "bullets" /\ pc \in {"docx", "default"}) =>
        /\ Len(phases) <= MaxItems
        /\ \A i \in 1..Len(phases) :
              \A j \in 1..Len(phases[i]) : phases[i][j].k \notin {"-", "endash"}
        /\ Len(phases) <= LeadingBullets(text)

\* The lines among lines at which no meta pattern matches
NonMeta(lines) == Keep(lines, {i \in 1..Len(lines) : ~MatchesMeta(lines[i])}, 1, Len(lines))

\* out is what C6 states for the text in with the non-meta lines kept
StrippedAs(in, kept, out) ==
    /\ (\E i \in 1..Len(kept) : ~IsBlank(kept[i])) => out = Join(kept, <<NL>>)
    /\ (\A i \in 1..Len(kept) : IsBlank(kept[i])) => out = in
    /\ ~IsBlank(in) => ~IsBlank(out)

NoMetaLine(lines) == \A i \in 1..Len(lines) : ~MatchesMeta(lines[i])

\* C6: _strip_meta returns the lines no meta pattern matches, in order, if
\* one of them is not blank, and the text unchanged otherwise; the result
\* is not all blank unless the text was.
C6_StripKeepsContent ==
    pc \in {"json", "bullets", "default", "docx"} =>
        /\ StrippedAs(reply, NonMeta(SplitLines(reply)), text)
        /\ text # reply => NoMetaLine(SplitLines(text))

\* C6 witness: a completion with a meta line and a line of content was
\* stripped of the meta line.
C6_Witness ==
    /\ pc = "json"
    /\ ~NoMetaLine(SplitLines(reply))
    /\ text # reply
    /\ ~IsBlank(text)
    /\ NoMetaLine(SplitLines(text))

\* C10: every phase name handed to the diagram is a non-empty trimmed
\* string, whichever tier produced it.
C10_NamesNonEmptyTrimmed ==
    pc \in {"docx", "png", "tts"} =>
        \A i \in 1..Len(phases) : phases[i] # <<>> /\ Strip(phases[i]) = phases[i]

====
